---- MODULE Spec2Model ----
(***************************************************************************)
(* A model of the chat-away Streamlit client: the session-scoped           *)
(* conversation store (app/utils/session.py), the search dispatcher        *)
(* (app/services/search_service.py), user-input routing                    *)
(* (app/services/openai_service.py), and the realtime channel              *)
(* (app/services/websocket_client.py) with its sidebar controls            *)
(* (app/components/sidebar.py).                                            *)
(*                                                                         *)
(* Text is modelled as a tuple of one-character strings so that substring  *)
(* search, lower-casing and concatenation are computed as Python computes  *)
(* them.  JSON values are tagged records [t |-> kind, v |-> payload].      *)
(***************************************************************************)
EXTENDS Integers, Sequences, FiniteSets, Bags, TLC

\* ------------------------------------------------------------------ bounds
\* WebSocketClient objects alive at once: the one the session holds plus
\* those it dropped whose receive thread still runs.
MaxClients == 2
\* Length of the transcript (st.session_state.messages).
MaxMessages == 2

\* ------------------------------------------------------------ fixed texts
\* search_service.py:46
NEW_CONVERSATION ==
    <<"n","e","w","_","c","o","n","v","e","r","s","a","t","i","o","n">>
\* openai_service.py:85
SEARCHING_TEXT ==
    <<"S","e","a","r","c","h","i","n","g"," ","f","o","r"," ","r","e","l","e","v","a","n","t"," ","i","n","f","o","r","m","a","t","i","o","n",".",".",".">>
\* openai_service.py:114
ERROR_PREFIX ==
    <<"E","r","r","o","r",":"," ">>
\* websocket_client.py:123
RESULTS_HEADER ==
    <<"H","e","r","e"," ","a","r","e"," ","t","h","e"," ","s","e","a","r","c","h"," ","r","e","s","u","l","t","s",":","\n","\n">>
\* websocket_client.py:133
NO_RESULTS_TEXT ==
    <<"N","o"," ","s","e","a","r","c","h"," ","r","e","s","u","l","t","s"," ","f","o","u","n","d",".">>
\* websocket_client.py:83
INVALID_MESSAGE_FORMAT ==
    <<"I","n","v","a","l","i","d"," ","m","e","s","s","a","g","e"," ","f","o","r","m","a","t">>
\* openai_service.py:128-131
search_keywords ==
    << <<"s","e","a","r","c","h">>,
       <<"f","i","n","d">>,
       <<"l","o","o","k"," ","u","p">>,
       <<"l","o","o","k","u","p">>,
       <<"s","e","a","r","c","h"," ","f","o","r">>,
       <<"f","i","n","d"," ","i","n","f","o","r","m","a","t","i","o","n">>,
       <<"g","e","t"," ","i","n","f","o","r","m","a","t","i","o","n">>,
       <<"r","e","t","r","i","e","v","e">> >>

\* ------------------------------------------------------- Python built-ins
UpperLetters ==
    <<"A","B","C","D","E","F","G","H","I","J","K","L","M","N","O","P","Q","R","S","T","U","V","W","X","Y","Z">>
LowerLetters ==
    <<"a","b","c","d","e","f","g","h","i","j","k","l","m","n","o","p","q","r","s","t","u","v","w","x","y","z">>
DigitChars ==
    <<"0","1","2","3","4","5","6","7","8","9">>

\* str.lower() on one character.
LowerTable ==
    [ch \in {UpperLetters[i] : i \in 1..Len(UpperLetters)} |->
        LowerLetters[CHOOSE i \in 1..Len(UpperLetters) : UpperLetters[i] = ch]]
LowerChar(ch) ==
    IF ch \in DOMAIN LowerTable THEN LowerTable[ch] ELSE ch

\* str.lower()
Lower(s) ==
    [i \in 1..Len(s) |-> LowerChar(s[i])]

\* keyword in text  (substring test on str)
Contains(s, kw) ==
    \E i \in 1..(Len(s) - Len(kw) + 1) : SubSeq(s, i, i + Len(kw) - 1) = kw

\* seq[-1] of a non-empty list
Last(seq) == seq[Len(seq)]

\* str(n) for a non-negative integer
RECURSIVE IntToStr(_)
IntToStr(n) ==
    IF n < 10 THEN <<DigitChars[n + 1]>>
    ELSE IntToStr(n \div 10) \o <<DigitChars[(n % 10) + 1]>>

\* JSON values as json.loads / response.json() produce them.
JNull == [t |-> "null"]
JStr(s) == [t |-> "str", v |-> s]
JNum(n) == [t |-> "num", v |-> n]
JList(l) == [t |-> "list", v |-> l]
JDict(d) == [t |-> "dict", v |-> d]
\* Python's None in session state.
None == JNull

\* bool(x): Python truthiness of a JSON value.
Truthy(x) ==
    CASE x.t = "null" -> FALSE
      [] x.t = "str"  -> Len(x.v) > 0
      [] x.t = "num"  -> x.v # 0
      [] x.t = "list" -> Len(x.v) > 0
      [] x.t = "dict" -> DOMAIN x.v # {}

\* len(x) is defined (no TypeError) for str, list and dict.
HasLen(x) ==
    x.t \in {"str", "list", "dict"}

\* `key in x` raises TypeError for None and numbers.
InRaises(x) ==
    x.t \in {"null", "num"}

\* `key in x` for a str key: dict key, list element, or substring.
PyIn(key, x) ==
    CASE x.t = "dict" -> key \in DOMAIN x.v
      [] x.t = "list" -> \E i \in 1..Len(x.v) : x.v[i] = JStr(key)
      [] x.t = "str"  -> Contains(x.v, key)
      [] OTHER        -> FALSE

\* Field names of the wire formats (dict keys are texts too).
KEY_SEARCH_RESULTS ==
    <<"s","e","a","r","c","h","_","r","e","s","u","l","t","s">>
KEY_TITLE ==
    <<"t","i","t","l","e">>
KEY_SNIPPET ==
    <<"s","n","i","p","p","e","t">>
KEY_CONVERSATION_ID ==
    <<"c","o","n","v","e","r","s","a","t","i","o","n","_","i","d">>
KEY_OTHER ==
    <<"o","t","h","e","r">>

\* str(x) inside an f-string, for the values titles and snippets take.
PyStr(x) ==
    CASE x.t = "str" -> x.v
      [] x.t = "num" -> IntToStr(x.v)
      [] OTHER       -> <<"N","o","n","e">>

\* ------------------------------------------------- app/utils/session.py
\* The websocket_client key of st.session_state before the first connect.
NoClient == [absent |-> TRUE]

\* st.session_state after initialize_session_state().
InitialSession ==
    [ messages            |-> <<>>,
      conversation_id     |-> None,
      websocket_connected |-> FALSE,
      search_results      |-> JList(<<>>),
      websocket_client    |-> NoClient ]

\* add_message(role, content, search_query=None)
add_message(s, role, content, search_query) ==
    LET base == [role |-> role, content |-> content, timestamp |-> 0]
        message == IF Truthy(search_query)
                   THEN [role |-> role, content |-> content, timestamp |-> 0,
                         search_query |-> search_query.v]
                   ELSE base
    IN  [s EXCEPT !.messages = Append(@, message)]

\* Faulty variant of get_messages_for_openai: hands the stored messages
\* over as they are.
get_messages_for_openai_unstripped(s) ==
    s.messages

\* get_messages_for_openai()
get_messages_for_openai(s) ==
    [i \in 1..Len(s.messages) |->
        [role |-> s.messages[i].role, content |-> s.messages[i].content]]

\* Faulty variant of clear_conversation: forgets to reset the id.
clear_conversation_keeps_id(s) ==
    [s EXCEPT !.messages = <<>>,
              !.search_results = JList(<<>>)]

\* clear_conversation()
clear_conversation(s) ==
    [s EXCEPT !.messages = <<>>,
              !.conversation_id = None,
              !.search_results = JList(<<>>)]

\* ----------------------------------------- app/services/search_service.py
\* What requests.post does: raises, or returns a status with a body that
\* response.json() either parses (ok) or rejects.
HttpRaises == [kind |-> "exception"]
HttpResponse(status, body) == [kind |-> "response", status |-> status, body |-> body]
BodyInvalid == [ok |-> FALSE]
BodyJson(data) == [ok |-> TRUE, data |-> data]

\* Faulty variant of payload_conversation_id: ignores the stored id.
payload_always_new(s) ==
    JStr(NEW_CONVERSATION)

\* The id perform_search puts in the payload:
\* st.session_state.conversation_id or "new_conversation"
payload_conversation_id(s) ==
    IF Truthy(s.conversation_id) THEN s.conversation_id ELSE JStr(NEW_CONVERSATION)

\* Faulty variant of adopt_conversation_id: takes the id of the body even
\* when one is stored.
adopt_conversation_id_overwrites(s, body) ==
    IF ~body.ok THEN s
    ELSE IF body.data.t # "dict" THEN s
    ELSE IF KEY_CONVERSATION_ID \in DOMAIN body.data.v
              /\ Truthy(body.data.v[KEY_CONVERSATION_ID])
         THEN [s EXCEPT !.conversation_id = body.data.v[KEY_CONVERSATION_ID]]
         ELSE s

\* The inner block of perform_search that probes a 202 body for an id.
adopt_conversation_id(s, body) ==
    IF Truthy(s.conversation_id) THEN s
    ELSE IF ~body.ok THEN s                       \* response.json() raised
    ELSE IF body.data.t # "dict" THEN s           \* .get raised AttributeError
    ELSE LET new_conversation_id ==
                 IF KEY_CONVERSATION_ID \in DOMAIN body.data.v
                 THEN body.data.v[KEY_CONVERSATION_ID] ELSE None
         IN  IF Truthy(new_conversation_id)
             THEN [s EXCEPT !.conversation_id = new_conversation_id]
             ELSE s

\* Faulty variant of perform_search: probes the body for an id whatever the
\* status is.
perform_search_any_status(s, query, resp) ==
    LET payload == [query |-> query, conversation_id |-> payload_conversation_id(s)]
    IN  IF resp.kind = "exception"
        THEN [st |-> s, ret |-> FALSE, payload |-> payload]
        ELSE [st |-> adopt_conversation_id(s, resp.body),
              ret |-> resp.status = 202, payload |-> payload]

\* SearchService.perform_search(query): the new session state, the return
\* value and the payload handed to requests.post.
perform_search(s, query, resp) ==
    LET payload == [query |-> query, conversation_id |-> payload_conversation_id(s)]
    IN  IF resp.kind = "exception"
        THEN [st |-> s, ret |-> FALSE, payload |-> payload]
        ELSE IF resp.status = 202
             THEN [st |-> adopt_conversation_id(s, resp.body), ret |-> TRUE,
                   payload |-> payload]
             ELSE [st |-> s, ret |-> FALSE, payload |-> payload]

\* ----------------------------------------- app/services/openai_service.py
\* Faulty variant of should_use_semantic_search: matches the keywords
\* against the input as typed.
should_use_semantic_search_as_typed(user_input) ==
    \E k \in 1..Len(search_keywords) : Contains(user_input, search_keywords[k])

\* should_use_semantic_search(user_input)
should_use_semantic_search(user_input) ==
    \E k \in 1..Len(search_keywords) : Contains(Lower(user_input), search_keywords[k])

\* What OpenAIService.generate_response does: returns the stripped reply
\* or re-raises the client's exception.
CompletionReply(text) == [ok |-> TRUE, text |-> text]
CompletionRaises(e) == [ok |-> FALSE, error |-> e]

NoPayload == [query |-> <<>>, conversation_id |-> None]

\* Faulty variant of process_user_input: takes the history before it
\* appends the user message.
process_user_input_routes_first(s, user_input, resp, completion) ==
    LET s1 == add_message(s, "user", user_input, None)
    IN  IF should_use_semantic_search(user_input)
        THEN LET r == perform_search(s1, user_input, resp)
             IN  [st |-> r.st, ret |-> SEARCHING_TEXT, route |-> "search",
                  accepted |-> r.ret, payload |-> r.payload, calls |-> 1,
                  history |-> <<>>]
        ELSE LET messages == get_messages_for_openai(s)
             IN  IF completion.ok
                 THEN [st |-> add_message(s1, "assistant", completion.text, None),
                       ret |-> completion.text, route |-> "completion",
                       accepted |-> FALSE, payload |-> NoPayload, calls |-> 0,
                       history |-> messages]
                 ELSE [st |-> s1, ret |-> ERROR_PREFIX \o completion.error,
                       route |-> "completion", accepted |-> FALSE,
                       payload |-> NoPayload, calls |-> 0,
                       history |-> messages]

\* process_user_input(user_input, search_service): the new session state
\* and the returned text; route, dispatch result, payload, the number of
\* perform_search calls and the history handed to the model are recorded
\* for observation.
process_user_input(s, user_input, resp, completion) ==
    LET s1 == add_message(s, "user", user_input, None)
    IN  IF should_use_semantic_search(user_input)
        THEN LET r == perform_search(s1, user_input, resp)
             IN  [st |-> r.st, ret |-> SEARCHING_TEXT, route |-> "search",
                  accepted |-> r.ret, payload |-> r.payload, calls |-> 1,
                  history |-> <<>>]
        ELSE LET messages == get_messages_for_openai(s1)
             IN  IF completion.ok
                 THEN [st |-> add_message(s1, "assistant", completion.text, None),
                       ret |-> completion.text, route |-> "completion",
                       accepted |-> FALSE, payload |-> NoPayload, calls |-> 0,
                       history |-> messages]
                 ELSE [st |-> s1, ret |-> ERROR_PREFIX \o completion.error,
                       route |-> "completion", accepted |-> FALSE,
                       payload |-> NoPayload, calls |-> 0,
                       history |-> messages]

\* --------------------------------------- app/services/websocket_client.py
\* Inbound frame texts of the model and what json.loads makes of each; any
\* other text raises json.JSONDecodeError.
FRAME_TWO     == "{\"search_results\":[{\"title\":\"A\",\"snippet\":\"B\"},{\"title\":\"B\",\"snippet\":\"A\"}]}"
FRAME_EMPTY   == "{\"search_results\":[]}"
FRAME_OTHER   == "{\"other\":1}"
FRAME_NOSNIP  == "{\"search_results\":[{\"title\":\"A\"}]}"
FRAME_NULL    == "{\"search_results\":null}"
FRAME_GARBAGE == "search_results"

Item(title, snippet) ==
    JDict((KEY_TITLE :> JStr(title)) @@ (KEY_SNIPPET :> JStr(snippet)))

json_loads(message) ==
    CASE message = FRAME_TWO ->
           [ok |-> TRUE,
            data |-> JDict(KEY_SEARCH_RESULTS :>
                        JList(<<Item(<<"A">>, <<"B">>), Item(<<"B">>, <<"A">>)>>))]
      [] message = FRAME_EMPTY ->
           [ok |-> TRUE, data |-> JDict(KEY_SEARCH_RESULTS :> JList(<<>>))]
      [] message = FRAME_OTHER ->
           [ok |-> TRUE, data |-> JDict(KEY_OTHER :> JNum(1))]
      [] message = FRAME_NOSNIP ->
           [ok |-> TRUE,
            data |-> JDict(KEY_SEARCH_RESULTS :>
                        JList(<<JDict(KEY_TITLE :> JStr(<<"A">>))>>))]
      [] message = FRAME_NULL ->
           [ok |-> TRUE, data |-> JDict(KEY_SEARCH_RESULTS :> JNull)]
      [] OTHER -> [ok |-> FALSE]

\* result['title'] and result['snippet'] both evaluate (no KeyError or
\* TypeError) for the idx-th element the for-loop draws from search_results.
ItemFormats(results, idx) ==
    /\ results.t = "list"
    /\ results.v[idx].t = "dict"
    /\ KEY_TITLE \in DOMAIN results.v[idx].v
    /\ KEY_SNIPPET \in DOMAIN results.v[idx].v

\* Number of elements the for-loop over search_results visits.
IterLen(results) ==
    CASE results.t = "list" -> Len(results.v)
      [] results.t = "str"  -> Len(results.v)
      [] results.t = "dict" -> Cardinality(DOMAIN results.v)
      [] OTHER              -> 0

\* Faulty variant of format_result: numbers the items from 0.
format_result_from_zero(idx, result) ==
    IntToStr(idx - 1) \o <<".", " ">> \o PyStr(result.v[KEY_TITLE]) \o <<":", " ">>
        \o PyStr(result.v[KEY_SNIPPET]) \o <<"\n">>

\* f"{idx}. {result['title']}: {result['snippet']}\n"
format_result(idx, result) ==
    IntToStr(idx) \o <<".", " ">> \o PyStr(result.v[KEY_TITLE]) \o <<":", " ">>
        \o PyStr(result.v[KEY_SNIPPET]) \o <<"\n">>

\* result_text after the first n iterations of the loop (lines 123-125).
RECURSIVE result_text(_, _)
result_text(results, n) ==
    IF n = 0 THEN RESULTS_HEADER
    ELSE result_text(results, n - 1) \o format_result(n, results.v[n])

\* handle_websocket_message(data): every exception raised inside is caught
\* and logged at lines 142-143, leaving the mutations made before it.  The
\* closing st.rerun() (line 137) writes nothing to the session state.
handle_websocket_message(s, data) ==
    IF InRaises(data) THEN s
    ELSE IF ~PyIn(KEY_SEARCH_RESULTS, data) THEN s
    ELSE IF data.t # "dict" THEN s
    ELSE LET results == data.v[KEY_SEARCH_RESULTS]
         IN  IF ~HasLen(results) THEN s
             ELSE LET s1 == [s EXCEPT !.search_results = results]
                  IN  IF Truthy(results)
                      THEN IF \A i \in 1..IterLen(results) : ItemFormats(results, i)
                           THEN add_message(s1, "assistant",
                                            result_text(results, Len(results.v)), None)
                           ELSE s1
                      ELSE add_message(s1, "assistant", NO_RESULTS_TEXT, None)

\* handle_websocket_error(error)
handle_websocket_error(s, error) ==
    [s EXCEPT !.websocket_connected = FALSE]

\* A WebSocketClient after __init__: ws is None, no thread, not connected.
\* sock is the state of self.ws: "none" (no WebSocketApp), "unstarted"
\* (WebSocketApp made, thread never started), "connecting" (run_forever
\* running, handshake pending), "open", "closed".
NewClient ==
    [sock |-> "none", is_connected |-> FALSE]

\* The receive thread of a client runs (and keeps the client alive) while
\* its socket is connecting or open.
ThreadRuns(cl) ==
    cl # NoClient /\ cl.sock \in {"connecting", "open"}

\* WebSocketClient._on_open
on_open(s, cl) ==
    [st |-> [s EXCEPT !.websocket_connected = TRUE],
     cl |-> [cl EXCEPT !.is_connected = TRUE, !.sock = "open"]]

\* WebSocketClient._on_close
on_close(cl) ==
    [cl EXCEPT !.is_connected = FALSE, !.sock = "closed"]

\* Faulty variant of on_error: does not forward to the error callback.
on_error_silent(s, cl, error) ==
    [st |-> s, cl |-> [cl EXCEPT !.is_connected = FALSE], errs |-> <<>>]

\* WebSocketClient._on_error; errs lists the values handed to on_error.
on_error(s, cl, error) ==
    [st |-> handle_websocket_error(s, error),
     cl |-> [cl EXCEPT !.is_connected = FALSE],
     errs |-> <<error>>]

\* WebSocketClient._on_message.  The last except clause (lines 84-86) needs
\* an exception out of handle_websocket_message, which catches them all.
on_message(s, cl, message) ==
    LET parsed == json_loads(message)
    IN  IF parsed.ok
        THEN [st |-> handle_websocket_message(s, parsed.data), cl |-> cl,
              errs |-> <<>>]
        ELSE [st |-> handle_websocket_error(s, INVALID_MESSAGE_FORMAT), cl |-> cl,
              errs |-> <<INVALID_MESSAGE_FORMAT>>]

\* WebSocketClient.connect: outcome "started", or an exception raised while
\* building the WebSocketApp ("app_raises") or starting the thread
\* ("thread_raises"), reported through on_error.
client_connect(s, cl, outcome, e) ==
    CASE outcome = "started" ->
           [st |-> s, cl |-> [cl EXCEPT !.sock = "connecting"], errs |-> <<>>]
      [] outcome = "app_raises" ->
           [st |-> handle_websocket_error(s, e), cl |-> cl, errs |-> <<e>>]
      [] outcome = "thread_raises" ->
           [st |-> handle_websocket_error(s, e),
            cl |-> [cl EXCEPT !.sock = "unstarted"], errs |-> <<e>>]

\* WebSocketClient.disconnect.  ws.close() ends run_forever, whose
\* teardown calls _on_close: that only clears is_connected again.
client_disconnect(cl) ==
    IF cl.sock # "none"
    THEN [cl EXCEPT !.is_connected = FALSE,
                    !.sock = IF @ \in {"connecting", "open"} THEN "closed" ELSE @]
    ELSE cl

\* ------------------------------------------- app/components/sidebar.py
\* The clients the session no longer references after websocket_client is
\* overwritten: the old one stays alive only while its thread runs.
Dropped(orph, old) ==
    IF ThreadRuns(old) THEN orph (+) SetToBag({old}) ELSE orph

\* connect_websocket(): new session state, the dropped clients still
\* running, the notice shown in the sidebar and the errors reported.
connect_websocket(s, orph, outcome, e) ==
    IF s.websocket_connected
    THEN [st |-> s, orphans |-> orph, signal |-> "WebSocket already connected",
          errs |-> <<>>, created |-> FALSE]
    ELSE LET r == client_connect(s, NewClient, outcome, e)
         IN  [st |-> [r.st EXCEPT !.websocket_client = r.cl],
              orphans |-> Dropped(orph, s.websocket_client),
              signal |-> "WebSocket connection initiated",
              errs |-> r.errs, created |-> TRUE]

\* disconnect_websocket()
disconnect_websocket(s) ==
    IF ~s.websocket_connected
    THEN [st |-> s, signal |-> "WebSocket not connected"]
    ELSE IF s.websocket_client # NoClient
         THEN [st |-> [s EXCEPT !.websocket_connected = FALSE,
                                !.websocket_client = client_disconnect(@)],
               signal |-> "WebSocket disconnected"]
         ELSE [st |-> s, signal |-> "No active WebSocket connection found"]

\* ------------------------------------------------------------ the session
\* st:      st.session_state (one Streamlit session), read and written by
\*          the script thread and by the receive threads alike; its
\*          websocket_client entry is the WebSocketClient the session holds
\* orphans: the bag of WebSocketClient objects the session has dropped and
\*          whose receive thread still runs
\* lastOp:  the operation that ran last, what it reported, and the part of
\*          the state it started from (observation only; no operation
\*          reads it)
\* threads: where the script thread stands inside clear_conversation and
\*          the receive thread inside handle_websocket_message, with the
\*          receive thread's locals, when the two are followed statement by
\*          statement (SpecInterleaved); idle wherever a handler is one step
VARIABLES st, orphans, lastOp, threads

vars == <<st, orphans, lastOp, threads>>

\* Inputs the environment supplies.
UserInputs ==
    { <<"h","i">>, <<"F","i","n","d">> }
CompletionTexts ==
    { <<"o","k">> }
\* Transport errors run_forever reports to _on_error.
ErrorValues ==
    { <<"r","e","s","e","t">>, <<"E","O","F">> }
\* Exceptions raised inside WebSocketClient.connect.
ConnectErrors ==
    { <<"s","t","a","r","t">> }
\* Exceptions raised by the completion client.
CompletionErrors ==
    { <<"4","0","1">> }
ConnectOutcomes ==
    { "started", "app_raises", "thread_raises" }
Frames ==
    { FRAME_TWO, FRAME_EMPTY, FRAME_OTHER, FRAME_NOSNIP, FRAME_NULL, FRAME_GARBAGE }
IdBody(id) ==
    BodyJson(JDict(KEY_CONVERSATION_ID :> JStr(id)))
HttpOutcomes ==
    { HttpRaises,
      HttpResponse(500, IdBody(<<"a","b","c">>)),
      HttpResponse(202, BodyInvalid),
      HttpResponse(202, IdBody(<<>>)),
      HttpResponse(202, IdBody(<<"a","b","c">>)),
      HttpResponse(202, IdBody(<<"x","y","z">>)) }
CompletionOutcomes ==
    { CompletionReply(t) : t \in CompletionTexts }
        \cup { CompletionRaises(e) : e \in CompletionErrors }

\* Every client with a running receive thread: Held names the one the
\* session holds, any other value is a dropped client.
Held == [held |-> TRUE]
Running ==
    (IF ThreadRuns(st.websocket_client) THEN {Held} ELSE {})
        \cup BagToSet(orphans)

\* The client a thread event is about.
ClientOf(who) ==
    IF who = Held THEN st.websocket_client ELSE who

\* The session state and the dropped clients once the client `who` has
\* become cl: a dropped client whose thread has ended is gone.
WithClient(s, who, cl) ==
    IF who = Held
    THEN [st |-> [s EXCEPT !.websocket_client = cl], orphans |-> orphans]
    ELSE [st |-> s,
          orphans |-> IF ThreadRuns(cl)
                      THEN (orphans (-) SetToBag({who})) (+) SetToBag({cl})
                      ELSE orphans (-) SetToBag({who})]

\* The part of the state an operation started from.
Pre(cl) ==
    [ n         |-> Len(st.messages),
      id        |-> st.conversation_id,
      connected |-> st.websocket_connected,
      client    |-> cl ]

NoOp ==
    [ op |-> "init", who |-> "", client |-> NoClient, signal |-> "",
      errs |-> <<>>, ret |-> <<>>, route |-> "", accepted |-> FALSE,
      payload |-> NoPayload, http |-> HttpRaises, frame |-> "",
      parsed |-> FALSE, created |-> FALSE, input |-> <<>>,
      calls |-> 0, history |-> <<>>,
      pre |-> [n |-> 0, id |-> None, connected |-> FALSE, client |-> NoClient] ]

\* No handler is followed statement by statement.
Idle ==
    [ script |-> "idle", recv |-> "idle", frame |-> "", start |-> InitialSession,
      message |-> [role |-> "", content |-> <<>>, timestamp |-> 0],
      target |-> "none", discarded |-> <<>> ]

Init ==
    /\ st = InitialSession
    /\ orphans = EmptyBag
    /\ lastOp = NoOp
    /\ threads = Idle

\* The "Connect WebSocket" button.
ConnectWebSocket ==
    \E outcome \in ConnectOutcomes, e \in ConnectErrors :
        \E r \in {connect_websocket(st, orphans, outcome, e)} :
            /\ BagCardinality(r.orphans) + 1 <= MaxClients
            /\ UNCHANGED threads
            /\ st' = r.st
            /\ orphans' = r.orphans
            /\ lastOp' = [NoOp EXCEPT !.op = "connect", !.who = "session",
                                      !.client = r.st.websocket_client,
                                      !.signal = r.signal, !.errs = r.errs,
                                      !.created = r.created,
                                      !.pre = Pre(st.websocket_client)]

\* The "Disconnect WebSocket" button.
DisconnectWebSocket ==
    \E r \in {disconnect_websocket(st)} :
        /\ UNCHANGED threads
        /\ st' = r.st
        /\ UNCHANGED orphans
        /\ lastOp' = [NoOp EXCEPT !.op = "disconnect", !.who = "session",
                                  !.client = r.st.websocket_client,
                                  !.signal = r.signal,
                                  !.pre = Pre(st.websocket_client)]

\* The handshake of a client's socket completes on its receive thread.
SocketOpen ==
    \E who \in Running :
        /\ ClientOf(who).sock = "connecting"
        /\ \E r \in {on_open(st, ClientOf(who))} :
               /\ UNCHANGED threads
               /\ st' = WithClient(r.st, who, r.cl).st
               /\ orphans' = WithClient(r.st, who, r.cl).orphans
               /\ lastOp' = [NoOp EXCEPT !.op = "open",
                                         !.who = IF who = Held THEN "session" ELSE "dropped",
                                         !.client = r.cl, !.pre = Pre(ClientOf(who))]

\* One inbound frame on a client's open socket.
SocketFrame ==
    \E who \in Running, message \in Frames :
        /\ ClientOf(who).sock = "open"
        /\ \E r \in {on_message(st, ClientOf(who), message)} :
               /\ Len(r.st.messages) <= MaxMessages
               /\ UNCHANGED threads
               /\ st' = WithClient(r.st, who, r.cl).st
               /\ orphans' = WithClient(r.st, who, r.cl).orphans
               /\ lastOp' = [NoOp EXCEPT !.op = "frame",
                                         !.who = IF who = Held THEN "session" ELSE "dropped",
                                         !.client = r.cl, !.errs = r.errs,
                                         !.frame = message,
                                         !.parsed = json_loads(message).ok,
                                         !.pre = Pre(ClientOf(who))]

\* A transport failure on a client's socket: run_forever reports it to
\* _on_error, then tears the socket down and reports _on_close.
SocketError ==
    \E who \in Running, e \in ErrorValues :
        \E r \in {on_error(st, ClientOf(who), e)} :
            /\ UNCHANGED threads
            /\ st' = WithClient(r.st, who, on_close(r.cl)).st
            /\ orphans' = WithClient(r.st, who, on_close(r.cl)).orphans
            /\ lastOp' = [NoOp EXCEPT !.op = "error",
                                      !.who = IF who = Held THEN "session" ELSE "dropped",
                                      !.client = on_close(r.cl), !.errs = r.errs,
                                      !.input = e,
                                      !.pre = Pre(ClientOf(who))]

\* The remote side closes a client's open socket.
SocketClose ==
    \E who \in Running :
        /\ ClientOf(who).sock = "open"
        /\ UNCHANGED threads
        /\ st' = WithClient(st, who, on_close(ClientOf(who))).st
        /\ orphans' = WithClient(st, who, on_close(ClientOf(who))).orphans
        /\ lastOp' = [NoOp EXCEPT !.op = "close",
                                  !.who = IF who = Held THEN "session" ELSE "dropped",
                                  !.client = on_close(ClientOf(who)),
                                  !.pre = Pre(ClientOf(who))]

\* What the environment can answer to one submit: the search endpoint is
\* called on the search route only, the completion endpoint on the other.
SubmitOutcomes(user_input) ==
    IF should_use_semantic_search(user_input)
    THEN { [resp |-> h, completion |-> CompletionRaises(<<>>)] : h \in HttpOutcomes }
    ELSE { [resp |-> HttpRaises, completion |-> k] : k \in CompletionOutcomes }

\* A chat submit: render_chat_interface calls process_user_input, logs the
\* returned text and reruns the script.
Submit ==
    \E user_input \in UserInputs :
        \E o \in SubmitOutcomes(user_input) :
            \E r \in {process_user_input(st, user_input, o.resp, o.completion)} :
                /\ Len(r.st.messages) <= MaxMessages
                /\ UNCHANGED threads
                /\ st' = r.st
                /\ UNCHANGED orphans
                /\ lastOp' = [NoOp EXCEPT !.op = "submit", !.ret = r.ret,
                                          !.route = r.route, !.accepted = r.accepted,
                                          !.payload = r.payload,
                                          !.input = user_input,
                                          !.calls = r.calls,
                                          !.history = r.history,
                                          !.http = o.resp,
                                          !.errs = IF r.route = "completion"
                                                      /\ ~o.completion.ok
                                                   THEN <<o.completion.error>>
                                                   ELSE <<>>,
                                          !.pre = Pre(NoClient)]

\* The "Clear Conversation" button.
ClearConversation ==
    /\ UNCHANGED threads
    /\ st' = clear_conversation(st)
    /\ UNCHANGED orphans
    /\ lastOp' = [NoOp EXCEPT !.op = "clear", !.pre = Pre(NoClient)]

Next ==
    \/ ConnectWebSocket
    \/ DisconnectWebSocket
    \/ SocketOpen
    \/ SocketFrame
    \/ SocketError
    \/ SocketClose
    \/ Submit
    \/ ClearConversation

Spec == Init /\ [][Next]_vars

\* ------------------------------------------------- the two pure functions
\* get_messages_for_openai and should_use_semantic_search applied on their
\* own: to every transcript add_message can build (its optional
\* search_query argument included) and to inputs that spell the keywords in
\* several cases and positions.
Roles == {"user", "assistant"}
Contents ==
    { <<"h","i">>, <<"o","k">> }
SearchQueries ==
    { None, JStr(<<"q">>) }
\* The sessions whose transcript add_message builds in at most n calls.
RECURSIVE SessionsWithTranscript(_)
SessionsWithTranscript(n) ==
    IF n = 0 THEN {InitialSession}
    ELSE LET shorter == SessionsWithTranscript(n - 1)
         IN  shorter \cup { add_message(s, role, content, q) :
                               s \in shorter, role \in Roles,
                               content \in Contents, q \in SearchQueries }

\* A keyword spelled in upper case, and with a leading capital.
UpperChar(ch) ==
    IF \E i \in 1..Len(LowerLetters) : LowerLetters[i] = ch
    THEN UpperLetters[CHOOSE i \in 1..Len(LowerLetters) : LowerLetters[i] = ch]
    ELSE ch
AllCaps(kw) ==
    [i \in 1..Len(kw) |-> UpperChar(kw[i])]
Capitalised(kw) ==
    [i \in 1..Len(kw) |-> IF i = 1 THEN UpperChar(kw[i]) ELSE kw[i]]
TextBefore ==
    { <<>>, <<"a"," ">>, <<"X">> }
TextAfter ==
    { <<>>, <<" ","z">>, <<"!">> }
\* Inputs that contain a keyword by construction.
InputsWithKeyword ==
    { b \o spelled \o a :
        b \in TextBefore, a \in TextAfter,
        spelled \in UNION { {search_keywords[k], AllCaps(search_keywords[k]),
                             Capitalised(search_keywords[k])} :
                            k \in 1..Len(search_keywords) } }
\* Texts that come close to a keyword but contain none.
NearMisses ==
    { <<>>,
      <<"h","i">>,
      <<"s","e","r","a","c","h">>,
      <<"f","i","n"," ","d">>,
      <<"f","i"," ","n","d">>,
      <<"l","o","o"," ","k","u","p">>,
      <<"l","o","o","k"," "," ","u","p">>,
      <<"l","o","o","k","-","u","p">>,
      <<"r","e","t","r","i","e","v">>,
      <<"r","e","t","r","i","e","v","a","l">>,
      <<"g","e","t"," ","i","n","f","o">>,
      <<"i","n","f","o","r","m","a","t","i","o","n">>,
      <<"S","E","A","R","C">>,
      <<"F","i","n">>,
      <<"s","e","e","k">> }
InputsWithoutKeyword ==
    { b \o miss \o a : b \in TextBefore, a \in TextAfter, miss \in NearMisses }
RoutingInputs ==
    InputsWithKeyword \cup InputsWithoutKeyword

InitFunctions ==
    /\ st \in SessionsWithTranscript(MaxMessages)
    /\ orphans = EmptyBag
    /\ lastOp = NoOp
    /\ threads = Idle

\* get_messages_for_openai() on the session's transcript.
TakeSnapshot ==
    /\ lastOp.op = "init"
    /\ UNCHANGED <<st, orphans, threads>>
    /\ lastOp' = [NoOp EXCEPT !.op = "snapshot",
                              !.history = get_messages_for_openai(st),
                              !.pre = Pre(NoClient)]

\* should_use_semantic_search(user_input) on one input.
RouteInput ==
    /\ lastOp.op = "init"
    /\ \E user_input \in RoutingInputs :
           /\ UNCHANGED <<st, orphans, threads>>
           /\ lastOp' = [NoOp EXCEPT !.op = "route", !.input = user_input,
                                     !.route = IF should_use_semantic_search(user_input)
                                               THEN "search" ELSE "completion",
                                     !.pre = Pre(NoClient)]

NextFunctions ==
    \/ TakeSnapshot
    \/ RouteInput

SpecFunctions == InitFunctions /\ [][NextFunctions]_vars

\* ------------------------------- clear against a frame, statement by statement
\* One click on "Clear Conversation" (script thread) while the receive
\* thread handles one search_results frame.  Nothing in the code orders the
\* two, so their statements interleave freely.  The statements that touch
\* the session state are, for the frame, lines 117 (store the results) and
\* session.py:58, which first evaluates st.session_state.messages (the list
\* object) and then calls append on that object; for the clear, lines 74,
\* 75 and 76.
SearchSubmitted(s, resp) ==
    process_user_input(s, <<"F","i","n","d">>, resp, CompletionRaises(<<>>)).st
\* The session once the channel is open.
ConnectedSession ==
    LET c == connect_websocket(InitialSession, EmptyBag, "started", <<>>)
        o == on_open(c.st, c.st.websocket_client)
    IN  [o.st EXCEPT !.websocket_client = o.cl]
\* Sessions the race starts from: the channel open, then nothing, or one
\* search submitted (with or without an adopted id), or its results shown.
RaceSessions ==
    LET asked == { SearchSubmitted(ConnectedSession, HttpResponse(202, b)) :
                     b \in {BodyInvalid, IdBody(<<"a","b","c">>)} }
    IN  {ConnectedSession} \cup asked
          \cup { handle_websocket_message(s, json_loads(FRAME_TWO).data) : s \in asked }
RaceFrames ==
    { FRAME_TWO, FRAME_EMPTY }

InitInterleaved ==
    /\ st \in RaceSessions
    /\ orphans = EmptyBag
    /\ lastOp = NoOp
    /\ \E message \in RaceFrames :
           threads = [Idle EXCEPT !.script = "l74", !.recv = "l117",
                                  !.frame = message, !.start = st]

\* websocket_client.py:117  st.session_state.search_results = data[...]
RecvStore ==
    /\ threads.recv = "l117"
    /\ st' = [st EXCEPT !.search_results =
                          json_loads(threads.frame).data.v[KEY_SEARCH_RESULTS]]
    /\ threads' = [threads EXCEPT !.recv = "l121"]
    /\ UNCHANGED <<orphans, lastOp>>

\* websocket_client.py:121-133 and session.py:48-58: the text and the
\* message dict are built and st.session_state.messages is evaluated.
RecvLoad ==
    /\ threads.recv = "l121"
    /\ LET results == json_loads(threads.frame).data.v[KEY_SEARCH_RESULTS]
           text == IF Truthy(results)
                   THEN result_text(results, Len(results.v))
                   ELSE NO_RESULTS_TEXT
       IN  threads' = [threads EXCEPT
                         !.recv = "l58",
                         !.message = Last(add_message(st, "assistant", text, None).messages),
                         !.target = "session"]
    /\ UNCHANGED <<st, orphans, lastOp>>

\* session.py:58  .append(message) on the list evaluated before.
RecvAppend ==
    /\ threads.recv = "l58"
    /\ IF threads.target = "session"
       THEN /\ st' = [st EXCEPT !.messages = Append(@, threads.message)]
            /\ threads' = [threads EXCEPT !.recv = "done", !.target = "none"]
       ELSE /\ st' = st
            /\ threads' = [threads EXCEPT
                             !.recv = "done", !.target = "none",
                             !.discarded = Append(@, threads.message)]
    /\ UNCHANGED <<orphans, lastOp>>

\* session.py:74  st.session_state.messages = []: the old list object stays
\* with whoever evaluated it before.
ClearMessages ==
    /\ threads.script = "l74"
    /\ st' = [st EXCEPT !.messages = <<>>]
    /\ threads' = IF threads.target = "session"
                  THEN [threads EXCEPT !.script = "l75", !.target = "discarded",
                                       !.discarded = st.messages]
                  ELSE [threads EXCEPT !.script = "l75"]
    /\ UNCHANGED <<orphans, lastOp>>

\* session.py:75  st.session_state.conversation_id = None
ClearId ==
    /\ threads.script = "l75"
    /\ st' = [st EXCEPT !.conversation_id = None]
    /\ threads' = [threads EXCEPT !.script = "l76"]
    /\ UNCHANGED <<orphans, lastOp>>

\* session.py:76  st.session_state.search_results = []
ClearResults ==
    /\ threads.script = "l76"
    /\ st' = [st EXCEPT !.search_results = JList(<<>>)]
    /\ threads' = [threads EXCEPT !.script = "done"]
    /\ UNCHANGED <<orphans, lastOp>>

NextInterleaved ==
    \/ RecvStore
    \/ RecvLoad
    \/ RecvAppend
    \/ ClearMessages
    \/ ClearId
    \/ ClearResults

SpecInterleaved == InitInterleaved /\ [][NextInterleaved]_vars

\* ================================================================ claims

IsFrame == lastOp.op = "frame"
IsSearchSubmit == lastOp.op = "submit" /\ lastOp.route = "search"
IsCompletionSubmit == lastOp.op = "submit" /\ lastOp.route = "completion"
\* The channel was Connected when the operation started: the client the
\* session held had its socket open (is_connected set by _on_open).
WasConnected ==
    lastOp.pre.client # NoClient /\ lastOp.pre.client.is_connected

\* C1: connect while the channel is Connected changes nothing, reports
\* "already connected" and creates no second client.
C1_ConnectWhileConnectedIsNoOp ==
    (lastOp.op = "connect" /\ WasConnected)
        => /\ ~lastOp.created
           /\ lastOp.signal = "WebSocket already connected"
           /\ st.websocket_client = lastOp.pre.client
           /\ st.websocket_connected = lastOp.pre.connected

\* C2: a frame that fails to parse reports "Invalid message format" once
\* and leaves both connection flags as they were.
C2_ParseFailureKeepsConnectionState ==
    (IsFrame /\ ~lastOp.parsed)
        => /\ lastOp.errs = <<INVALID_MESSAGE_FORMAT>>
           /\ lastOp.client.is_connected = lastOp.pre.client.is_connected
           /\ st.websocket_connected = lastOp.pre.connected

\* Frames of the model that carry a top-level search_results field, and
\* among them those whose value is a list of {title, snippet} items.
FramesWithField == {FRAME_TWO, FRAME_EMPTY, FRAME_NOSNIP, FRAME_NULL}
FramesWellFormed == {FRAME_TWO, FRAME_EMPTY}
\* The assistant text expected for each well-formed frame.
LISTING_TWO ==
    <<"H","e","r","e"," ","a","r","e"," ","t","h","e"," ","s","e","a","r","c","h"," ","r","e","s","u","l","t","s",":","\n","\n","1","."," ","A",":"," ","B","\n","2","."," ","B",":"," ","A","\n">>
ExpectedText(frame) ==
    IF frame = FRAME_TWO THEN LISTING_TWO ELSE NO_RESULTS_TEXT
AssistantMessage(text) ==
    [role |-> "assistant", content |-> text, timestamp |-> 0]

\* C3 as claimed: every parsed frame with a top-level search_results field
\* appends exactly one assistant message.
C3_FieldPresentAppendsOne ==
    (IsFrame /\ lastOp.parsed /\ lastOp.frame \in FramesWithField)
        => Len(st.messages) = lastOp.pre.n + 1

\* C3 as amended: a parsed frame whose search_results is a list of
\* {title, snippet} items appends exactly one assistant message (the
\* numbered listing, or "No search results found." for the empty list);
\* every other parsed frame of the model appends nothing; no parsed frame
\* reaches the error handler.
C3_ParsedFrameAppends ==
    [][ (lastOp'.op = "frame" /\ lastOp'.parsed)
          => /\ lastOp'.errs = <<>>
             /\ IF lastOp'.frame \in FramesWellFormed
                THEN st'.messages =
                       Append(st.messages, AssistantMessage(ExpectedText(lastOp'.frame)))
                ELSE st'.messages = st.messages ]_vars

C3_Witness ==
    /\ IsFrame /\ lastOp.frame = FRAME_TWO
    /\ lastOp.pre.n = 1
    /\ Len(st.messages) = 2
    /\ Last(st.messages).content = LISTING_TWO

\* After a transport failure the error callback has received the error
\* value, and the failing client and the session are not connected.
C4_ErrorResetsState ==
    lastOp.op = "error"
        => /\ lastOp.errs = <<lastOp.input>>
           /\ ~lastOp.client.is_connected
           /\ ~st.websocket_connected
\* C4: a transport failure hands the error value to the error callback and
\* leaves the failing client and the session not connected, and a connect
\* issued next is accepted and builds a new client.
C4_TransportErrorAllowsReconnect ==
    /\ []C4_ErrorResetsState
    /\ [][ (lastOp.op = "error" /\ lastOp'.op = "connect")
             => /\ lastOp'.created
                /\ lastOp'.signal = "WebSocket connection initiated"
                /\ st'.websocket_client # NoClient
                /\ ~st'.websocket_client.is_connected ]_vars

C4_Witness ==
    /\ lastOp.op = "error"
    /\ lastOp.who = "session"
    /\ WasConnected /\ lastOp.pre.connected
    /\ ENABLED ConnectWebSocket

\* The last operation closed a Connected channel: a remote close of the
\* session's socket, or the disconnect button.
ClosedConnectedChannel ==
    /\ \/ lastOp.op = "close" /\ lastOp.who = "session"
       \/ lastOp.op = "disconnect"
    /\ WasConnected
C5_ClosedShowsNotConnected ==
    ClosedConnectedChannel => ~st.websocket_connected
\* C5: once a Connected channel is closed (by the remote side or by
\* disconnect) the session shows not-connected, and the next connect is
\* accepted rather than answered "already connected".
C5_ClosedIsNotTerminal ==
    /\ []C5_ClosedShowsNotConnected
    /\ [][ (ClosedConnectedChannel /\ lastOp'.op = "connect")
             => /\ lastOp'.created
                /\ lastOp'.signal # "WebSocket already connected" ]_vars

\* The conversation_id a 202 answer carries in its body, if any.
OfferedId ==
    IF /\ lastOp.http.kind = "response"
       /\ lastOp.http.status = 202
       /\ lastOp.http.body.ok
       /\ lastOp.http.body.data.t = "dict"
       /\ KEY_CONVERSATION_ID \in DOMAIN lastOp.http.body.data.v
    THEN lastOp.http.body.data.v[KEY_CONVERSATION_ID]
    ELSE None
C6_DispatchIds ==
    IsSearchSubmit
        => /\ lastOp.payload.query = lastOp.input
           /\ lastOp.pre.id = None
                => lastOp.payload.conversation_id = JStr(NEW_CONVERSATION)
           /\ lastOp.pre.id # None
                => lastOp.payload.conversation_id = lastOp.pre.id
           /\ (lastOp.pre.id = None /\ OfferedId # None /\ OfferedId.v # <<>>)
                => st.conversation_id = OfferedId
\* C6: a dispatch sends "new_conversation" exactly when no id is stored
\* and the stored id otherwise; a 202 answer carrying a non-empty id while
\* none is stored makes that id the stored one; a stored id stays until a
\* clear.
C6_IdAdoptedThenSent ==
    /\ []C6_DispatchIds
    /\ [][ (st.conversation_id # None /\ lastOp'.op # "clear")
             => st'.conversation_id = st.conversation_id ]_vars

C6_Witness ==
    /\ IsSearchSubmit
    /\ lastOp.pre.id = JStr(<<"a","b","c">>)
    /\ lastOp.payload.conversation_id = JStr(<<"a","b","c">>)
    /\ lastOp.http = HttpResponse(202, IdBody(<<"x","y","z">>))

\* The last operation was a dispatch answered by a non-202 status or cut
\* short by a transport exception.
DispatchFailed ==
    /\ IsSearchSubmit
    /\ \/ lastOp.http.kind = "exception"
       \/ lastOp.http.kind = "response" /\ lastOp.http.status # 202
\* C7: a dispatch answered by a non-202 status or a transport exception
\* returns false and leaves the stored id as it was.
C7_FailedDispatchKeepsId ==
    DispatchFailed
        => /\ ~lastOp.accepted
           /\ st.conversation_id = lastOp.pre.id

C7_Witness ==
    /\ DispatchFailed
    /\ lastOp.http = HttpResponse(500, IdBody(<<"a","b","c">>))
    /\ lastOp.pre.id = None

\* C8: after a clear the transcript is empty and the conversation id is
\* null, whatever was appended or adopted before.
C8_ClearEmpties ==
    lastOp.op = "clear"
        => /\ st.messages = <<>>
           /\ st.conversation_id = None

C8_Witness ==
    /\ lastOp.op = "clear"
    /\ lastOp.pre.n = MaxMessages
    /\ lastOp.pre.id # None
    /\ st.messages = <<>>

\* C9: when the completion call fails the transcript ends with the user
\* message followed by one assistant message carrying the error text.
C9_CompletionErrorShownInTranscript ==
    (IsCompletionSubmit /\ lastOp.errs # <<>>)
        => /\ Len(st.messages) = lastOp.pre.n + 2
           /\ st.messages[Len(st.messages) - 1].role = "user"
           /\ Last(st.messages).role = "assistant"
           /\ Last(st.messages).content = ERROR_PREFIX \o lastOp.errs[1]

\* C10: a failed dispatch is reported differently from an accepted one:
\* the returned text is not the "Searching..." text, or an assistant
\* notice is appended.
C10_FailedDispatchReported ==
    (IsSearchSubmit /\ ~lastOp.accepted)
        => \/ lastOp.ret # SEARCHING_TEXT
           \/ Last(st.messages).role = "assistant"

\* C11: the snapshot handed to the model has one entry per stored message,
\* in the stored order, each entry holding exactly the role and the content
\* of its message (no timestamp, no search_query), and taking it leaves the
\* transcript as it was.
C11_SnapshotIsRoleContent ==
    /\ [](lastOp.op = "snapshot"
            => /\ Len(lastOp.history) = Len(st.messages)
               /\ \A i \in 1..Len(st.messages) :
                      /\ DOMAIN lastOp.history[i] = {"role", "content"}
                      /\ lastOp.history[i].role = st.messages[i].role
                      /\ lastOp.history[i].content = st.messages[i].content)
    /\ [][lastOp'.op = "snapshot" => st'.messages = st.messages]_vars

C11_Witness ==
    /\ lastOp.op = "snapshot"
    /\ Len(lastOp.history) = MaxMessages
    /\ "search_query" \in DOMAIN st.messages[1]
    /\ st.messages[1].role # st.messages[2].role
    /\ st.messages[1].content # st.messages[2].content

\* C12: the routing heuristic answers "search" for every input that
\* contains one of the eight keywords in any letter case and "completion"
\* for every input that contains none, whatever the session holds, and it
\* leaves the session as it was.
C12_RoutesByKeyword ==
    /\ [](lastOp.op = "route"
            => /\ lastOp.input \in InputsWithKeyword => lastOp.route = "search"
               /\ lastOp.input \in InputsWithoutKeyword => lastOp.route = "completion")
    /\ [][lastOp'.op = "route" => st' = st]_vars

C12_Witness ==
    /\ lastOp.op = "route"
    /\ lastOp.input = <<"a"," ">> \o AllCaps(search_keywords[7]) \o <<"!">>
    /\ lastOp.route = "search"
    /\ Len(st.messages) = MaxMessages

\* C13: the stored conversation id changes in two ways only: from null to
\* the id a 202 answer carries, during an accepted dispatch, and from any
\* value to null, during a clear.  A stored id is never replaced by the id
\* of a later answer, and no completion submit, frame, connect, disconnect
\* or socket event changes it.
C13_IdChangesByAdoptionOrClear ==
    [][ st'.conversation_id # st.conversation_id
          => \/ /\ lastOp'.op = "clear"
                /\ st'.conversation_id = None
             \/ /\ lastOp'.op = "submit" /\ lastOp'.route = "search"
                /\ lastOp'.accepted
                /\ lastOp'.http.kind = "response" /\ lastOp'.http.status = 202
                /\ st.conversation_id = None
                /\ st'.conversation_id = OfferedId' ]_vars

C13_Witness ==
    /\ IsSearchSubmit /\ lastOp.accepted
    /\ lastOp.pre.id = None
    /\ st.conversation_id = JStr(<<"x","y","z">>)
    /\ lastOp.pre.n = 1

\* The message a submit stores for the user's text.
UserMessage(text) ==
    [role |-> "user", content |-> text, timestamp |-> 0]
\* C14: a submit appends the user message before anything else.  On the
\* completion route the history handed to the model is the stored
\* transcript ending with that user message, and a successful call appends
\* exactly one assistant message, the reply, directly after it.  On the
\* search route the dispatcher is called once with the user's text and the
\* transcript gains the user message only; the assistant message of a
\* search comes with a frame: every step that puts an assistant message
\* last is a successful completion submit or a frame.
C14_SubmitAppendsThenRoutes ==
    [][ /\ (Len(st'.messages) > Len(st.messages)
            /\ Last(st'.messages).role = "assistant")
           => \/ lastOp'.op = "frame" /\ lastOp'.frame \in FramesWithField
              \/ /\ lastOp'.op = "submit" /\ lastOp'.route = "completion"
                 /\ lastOp'.errs = <<>>
        /\ lastOp'.op = "submit"
          => LET withUser == Append(st.messages, UserMessage(lastOp'.input))
             IN  IF lastOp'.route = "completion"
                 THEN /\ Len(lastOp'.history) = Len(withUser)
                      /\ \A i \in 1..Len(withUser) :
                             /\ lastOp'.history[i].role = withUser[i].role
                             /\ lastOp'.history[i].content = withUser[i].content
                      /\ lastOp'.calls = 0
                      /\ lastOp'.errs = <<>>
                            => st'.messages =
                                 Append(withUser, AssistantMessage(lastOp'.ret))
                 ELSE /\ lastOp'.route = "search"
                      /\ lastOp'.calls = 1
                      /\ lastOp'.payload.query = lastOp'.input
                      /\ st'.messages = withUser ]_vars

C14_Witness ==
    /\ IsCompletionSubmit /\ lastOp.errs = <<>>
    /\ lastOp.pre.n = 0
    /\ Len(lastOp.history) = 1
    /\ Len(st.messages) = 2
    /\ Last(st.messages).role = "assistant"

\* Both threads have run to the end.
BothDone ==
    threads.script = "done" /\ threads.recv = "done"
\* Transcript, stored results and id of a session.
Outcome(s) ==
    <<s.messages, s.search_results, s.conversation_id>>
\* The frame handled to the end and then the clear, and the other way round.
FrameThenClear ==
    clear_conversation(
        handle_websocket_message(threads.start, json_loads(threads.frame).data))
ClearThenFrame ==
    handle_websocket_message(
        clear_conversation(threads.start), json_loads(threads.frame).data)
\* C15: however the statements of one clear and of the handling of one
\* search_results frame interleave, the final transcript, stored results
\* and conversation id are those of one of the two sequential orders; the
\* assistant message is never in the transcript next to emptied results,
\* and never appended to a list the clear has discarded.
C15_ClearAndFrameAreSerializable ==
    BothDone
        => /\ Outcome(st) \in {Outcome(FrameThenClear), Outcome(ClearThenFrame)}
           /\ ~(st.messages # <<>> /\ st.search_results = JList(<<>>)
                  /\ threads.frame = FRAME_TWO)
           /\ threads.discarded = <<>>

\* Clients whose socket is open, each delivering the frames it receives to
\* the session: the held one and the dropped ones.
OpenConnections ==
    (IF st.websocket_client # NoClient /\ st.websocket_client.sock = "open"
     THEN 1 ELSE 0)
        + BagCardinality(
              [cl \in {o \in BagToSet(orphans) : o.sock = "open"} |->
                  CopiesIn(cl, orphans)])
\* C16: at every moment at most one socket connection is open and
\* delivering frames to the session, also after a second connect issued
\* while the first was still connecting or after a malformed frame.
C16_AtMostOneLiveConnection ==
    OpenConnections <= 1

\* C17: between handlers the session's websocket_connected flag equals
\* is_connected of the client the session holds (false when it holds
\* none).
C17_FlagAgreesWithClient ==
    st.websocket_connected
        = (st.websocket_client # NoClient /\ st.websocket_client.is_connected)

====
